---- MODULE Spec2Model ----
(***************************************************************************)
(* Model of climada.engine.cost_benefit.CostBenefit: the result object,    *)
(* calc, combine_measures and the private steps they are made of.          *)
(*                                                                         *)
(* Floating point numbers are modelled as exact rationals [n, d] in lowest *)
(* terms with d > 0, extended by the IEEE special values the code can      *)
(* produce with numpy division: d = 0 encodes NaN (n = 0), +inf (n = 1)    *)
(* and -inf (n = -1).  Rounding and the sign of zero are not modelled.     *)
(***************************************************************************)
EXTENDS Integers, Sequences, FiniteSets, TLC

(***************************************************************************)
(* Numbers                                                                 *)
(***************************************************************************)
Abs(i) == IF i < 0 THEN -i ELSE i

Sign(i) == IF i < 0 THEN -1 ELSE IF i = 0 THEN 0 ELSE 1

RECURSIVE Gcd(_, _)
Gcd(a, b) == IF b = 0 THEN a ELSE Gcd(b, a % b)

\* the float n/d, in lowest terms (d > 0)
Reduce(n, d, g) == [n |-> n \div g, d |-> d \div g]

Q(n, d) == Reduce(n, d, Gcd(Abs(n), d))

R(i) == [n |-> i, d |-> 1]

NaN == [n |-> 0, d |-> 0]

Inf(s) == [n |-> s, d |-> 0]

IsNaN(a) == a.d = 0 /\ a.n = 0

IsInf(a) == a.d = 0 /\ a.n # 0

IsFinite(a) == a.d > 0

FAdd(a, b) ==
    IF IsNaN(a) \/ IsNaN(b) THEN NaN
    ELSE IF IsInf(a) /\ IsInf(b) THEN (IF a.n = b.n THEN a ELSE NaN)
    ELSE IF IsInf(a) THEN a
    ELSE IF IsInf(b) THEN b
    ELSE Q(a.n * b.d + b.n * a.d, a.d * b.d)

FNeg(a) == [n |-> -a.n, d |-> a.d]

FSub(a, b) == FAdd(a, FNeg(b))

FMul(a, b) ==
    IF IsNaN(a) \/ IsNaN(b) THEN NaN
    ELSE IF IsInf(a) \/ IsInf(b)
         THEN (IF a.n = 0 \/ b.n = 0 THEN NaN ELSE Inf(Sign(a.n) * Sign(b.n)))
    ELSE Q(a.n * b.n, a.d * b.d)

\* numpy true division: x/0 is +-inf, 0/0 is NaN (a warning, no exception)
FDiv(a, b) ==
    IF IsNaN(a) \/ IsNaN(b) THEN NaN
    ELSE IF IsInf(b) THEN (IF IsInf(a) THEN NaN ELSE R(0))
    ELSE IF IsInf(a) THEN Inf(a.n * (IF b.n < 0 THEN -1 ELSE 1))
    ELSE IF b.n = 0 THEN (IF a.n = 0 THEN NaN ELSE Inf(Sign(a.n)))
    ELSE Q(a.n * b.d * Sign(b.n), a.d * Abs(b.n))

\* comparisons are False when a NaN is involved
FLess(a, b) ==
    /\ ~IsNaN(a) /\ ~IsNaN(b)
    /\ IF IsInf(a) /\ IsInf(b) THEN a.n < b.n
       ELSE IF IsInf(a) THEN a.n < 0
       ELSE IF IsInf(b) THEN b.n > 0
       ELSE a.n * b.d < b.n * a.d

FLeq(a, b) == FLess(a, b) \/ (~IsNaN(a) /\ a = b)

FMax(a, b) == IF IsNaN(a) THEN a ELSE IF IsNaN(b) THEN b ELSE IF FLess(a, b) THEN b ELSE a

FMin(a, b) == IF IsNaN(a) THEN a ELSE IF IsNaN(b) THEN b ELSE IF FLess(b, a) THEN b ELSE a

RECURSIVE IPow(_, _)
IPow(b, e) == IF e = 0 THEN 1 ELSE b * IPow(b, e - 1)

\* element-wise helpers on arrays (sequences of floats)
VAdd(u, v) == [i \in 1..Len(u) |-> FAdd(u[i], v[i])]

VSub(u, v) == [i \in 1..Len(u) |-> FSub(u[i], v[i])]

VMul(u, v) == [i \in 1..Len(u) |-> FMul(u[i], v[i])]

VScale(u, c) == [i \in 1..Len(u) |-> FMul(u[i], c)]

VShift(u, c) == [i \in 1..Len(u) |-> FAdd(c, u[i])]

RECURSIVE VSum(_)
VSum(u) == IF Len(u) = 0 THEN R(0) ELSE FAdd(VSum(SubSeq(u, 1, Len(u) - 1)), u[Len(u)])

RECURSIVE VMaxOf(_)
VMaxOf(u) == IF Len(u) = 1 THEN u[1] ELSE FMax(VMaxOf(SubSeq(u, 1, Len(u) - 1)), u[Len(u)])

(***************************************************************************)
(* Python values                                                           *)
(***************************************************************************)
\* an optional argument: None, or Some(v)
None == [some |-> FALSE, v |-> 0]

Some(x) == [some |-> TRUE, v |-> x]

\* truth value of an optional number in an `if x:` test: None and 0 are false
Truthy(x) == x.some /\ x.v # 0

\* a dict that remembers insertion order: keys in order, val the mapping
EmptyMap == [x \in {} |-> 0]

EmptyDict == [keys |-> <<>>, val |-> EmptyMap]

Range(s) == {s[i] : i \in 1..Len(s)}

DHas(d, k) == k \in Range(d.keys)

DPut(d, k, v) ==
    IF DHas(d, k)
    THEN [keys |-> d.keys, val |-> [d.val EXCEPT ![k] = v]]
    ELSE [keys |-> Append(d.keys, k), val |-> [x \in Range(d.keys) \cup {k} |->
                                               IF x = k THEN v ELSE d.val[x]]]

\* a plain mapping (benefit, cost_ben_ratio, color_rgb): m[k] = v
MPut(m, k, v) == [x \in DOMAIN m \cup {k} |-> IF x = k THEN v ELSE m[x]]

NO_MEASURE == "no measure"

(***************************************************************************)
(* Collaborators of the engine: Impact, Measure, DiscRates.  Their code is *)
(* not part of the sources at hand; they are modelled from the interfaces  *)
(* the specification gives (section 6) over a small world of hazards,      *)
(* exposures and measures.                                                 *)
(***************************************************************************)
\* every event set of the world has two events with these annual frequencies
Frequency == <<Q(1, 2), Q(1, 4)>>

\* Impact: per-event loss, per-event frequency, expected annual impact
MkImpact(at_event) ==
    [at_event |-> at_event,
     frequency |-> Frequency,
     aai_agg |-> VSum(VMul(at_event, Frequency))]

\* per-event loss without measures, by exposures and hazard
BaseLoss(exp_id, haz_id) ==
    LET scale == (IF haz_id = "HF" THEN 2 ELSE 1)
                 * (IF exp_id = "X22" THEN 3 ELSE IF exp_id = "X0" THEN 0 ELSE 2)
    IN  <<R(50 * scale), R(100 * scale)>>

\* share of the loss a measure averts, by measure and hazard
AvertedShare(name, haz_id) ==
    CASE name = "A" -> (IF haz_id = "HF" THEN Q(1, 4) ELSE Q(1, 5))
      [] name = "B" -> Q(3, 10)
      [] name = "C" -> Q(1, 10)
      [] name = "D" -> Q(1, 2)
      [] name = "G" -> Q(9, 10)
      [] name = "W" -> Q(-1, 2)
      [] OTHER -> R(0)

\* Impact().calc(exposures, imp_fun_set, hazard)
Impact_calc(exposures, hazard) == MkImpact(BaseLoss(exposures.id, hazard.id))

\* measure.calc_impact(exposures, imp_fun_set, hazard) -> (Impact, risk_transf)
Measure_calc_impact(measure, exposures, hazard) ==
        [imp |-> MkImpact(VScale(BaseLoss(exposures.id, hazard.id),
                                 FSub(R(1), AvertedShare(measure.name, hazard.id)))),
         risk_transf |-> IF measure.name = "C"
                         THEN (IF hazard.id = "HF" THEN R(10) ELSE R(5))
                         ELSE R(0)]

\* events in ascending order of loss (insertion sort on index sequences)
RECURSIVE InsertIdx(_, _, _)
InsertIdx(sorted, i, at_event) ==
    IF Len(sorted) = 0 THEN <<i>>
    ELSE IF FLess(at_event[i], at_event[sorted[1]]) THEN <<i>> \o sorted
    ELSE <<sorted[1]>> \o InsertIdx(Tail(sorted), i, at_event)

RECURSIVE ArgSort(_, _)
ArgSort(at_event, n) ==
    IF n = 0 THEN <<>> ELSE InsertIdx(ArgSort(at_event, n - 1), n, at_event)

\* frequency of exceeding the i-th smallest loss
ExceedFreq(imp, idx, i) ==
    VSum([j \in 1..(Len(idx) - i + 1) |-> imp.frequency[idx[i + j - 1]]])

CurveOf(imp, idx) ==
    [return_per |-> [i \in 1..Len(idx) |-> FDiv(R(1), ExceedFreq(imp, idx, i))],
     impact |-> [i \in 1..Len(idx) |-> imp.at_event[idx[i]]]]

\* Impact.calc_freq_curve(): return periods ascending with the impact exceeded
calc_freq_curve(imp) == CurveOf(imp, ArgSort(imp.at_event, Len(imp.at_event)))

\* linear interpolation between points i and i + 1 of the curve
InterpBetween(efc, x, i) ==
    FAdd(efc.impact[i],
         FMul(FDiv(FSub(efc.impact[i + 1], efc.impact[i]),
                   FSub(efc.return_per[i + 1], efc.return_per[i])),
              FSub(x, efc.return_per[i])))

\* calc_freq_curve([x]).impact[0]: linear interpolation, clamped at both ends
InterpImpact(efc, x) ==
    IF FLeq(x, efc.return_per[1]) THEN efc.impact[1]
    ELSE IF FLeq(efc.return_per[Len(efc.return_per)], x) THEN efc.impact[Len(efc.impact)]
    ELSE InterpBetween(efc, x,
             CHOOSE k \in 1..(Len(efc.return_per) - 1) :
                 FLeq(efc.return_per[k], x) /\ FLess(x, efc.return_per[k + 1]))

\* DiscRates.net_present_value(ini_year, end_year, val_years): the discounted
\* sum of one value per year of [ini_year, end_year]; a sequence of another
\* length is an error
RECURSIVE Discounted(_, _)
Discounted(rate, vals) ==
    IF Len(vals) = 1 THEN vals[1]
    ELSE FAdd(vals[1], FDiv(Discounted(rate, Tail(vals)), FAdd(R(1), rate)))

net_present_value(disc_rates, ini_year, end_year, val_years) ==
    IF Len(val_years) = 0 \/ Len(val_years) # end_year - ini_year + 1
    THEN [raised |-> TRUE, val |-> NaN]
    ELSE [raised |-> FALSE, val |-> Discounted(disc_rates.rate, val_years)]

\* MeasureSet.get_measure(haz_type)
get_measure(meas_set, haz_type) == SelectSeq(meas_set, LAMBDA m : m.haz_type = haz_type)

(***************************************************************************)
(* Risk functions                                                          *)
(***************************************************************************)
risk_aai_agg(impact) == impact.aai_agg

risk_rp_100(impact) == InterpImpact(calc_freq_curve(impact), R(100))

risk_rp_250(impact) == InterpImpact(calc_freq_curve(impact), R(250))

\* calling the function value passed as risk_func
ApplyRisk(risk_func, impact) ==
    CASE risk_func = "risk_aai_agg" -> risk_aai_agg(impact)
      [] risk_func = "risk_rp_100" -> risk_rp_100(impact)
      [] risk_func = "risk_rp_250" -> risk_rp_250(impact)

(***************************************************************************)
(* CostBenefit.  A method is an operator from the object (self, a record   *)
(* of the attributes) and its arguments to an outcome: the object as the   *)
(* call leaves it, whether an exception left the call (raised), and the    *)
(* number of net_present_value calls it made (npv).  A value a method      *)
(* computes once and uses several times is handed to a helper operator.    *)
(***************************************************************************)
DEF_PRESENT_YEAR == 2016

DEF_FUTURE_YEAR == 2030

\* CostBenefit.__init__
CostBenefit_init ==
    [present_year |-> DEF_PRESENT_YEAR,
     future_year |-> DEF_FUTURE_YEAR,
     tot_climate_risk |-> R(0),
     unit |-> "USD",
     color_rgb |-> EmptyMap,
     benefit |-> EmptyMap,
     cost_ben_ratio |-> EmptyMap,
     imp_meas_future |-> EmptyDict,
     imp_meas_present |-> EmptyDict]

Outcome(self, raised, npv) == [self |-> self, raised |-> raised, npv |-> npv]

\* the weights with the last year's index taken as n_years instead of n_years-1
GrowthArray_OverYears(n_years, e) ==
    [i \in 1..(IF n_years < 0 THEN 0 ELSE n_years) |->
        FDiv(R(IPow(i - 1, e)), R(IPow(n_years, e)))]

\* np.arange(n_years)**e / (n_years-1)**e: empty for n_years <= 0, and the
\* one-element array [0] divided by 0 is [NaN]
GrowthArray(n_years, e) ==
    [i \in 1..(IF n_years < 0 THEN 0 ELSE n_years) |->
        FDiv(R(IPow(i - 1, e)), R(IPow(n_years - 1, e)))]

\* a time dependency that is linear when no exponent is given
_time_dependency_array_Linear(self, imp_time_depen) ==
    [raised |-> FALSE,
     val |-> GrowthArray(self.future_year - self.present_year + 1,
                         IF Truthy(imp_time_depen) THEN imp_time_depen.v ELSE 1)]

\* _time_dependency_array: [raised, val]; np.ones(n_years) raises for n_years < 0
_time_dependency_array(self, imp_time_depen) ==
    IF Truthy(imp_time_depen)
    THEN [raised |-> FALSE,
          val |-> GrowthArray(self.future_year - self.present_year + 1, imp_time_depen.v)]
    ELSE IF self.future_year - self.present_year + 1 < 0
         THEN [raised |-> TRUE, val |-> <<>>]
         ELSE [raised |-> FALSE,
               val |-> [i \in 1..(self.future_year - self.present_year + 1) |-> R(1)]]

\* the interpolation run from b to a
Interpolate_Reversed(a, b, time_dep) == VShift(VScale(time_dep, FSub(a, b)), b)

\* a + (b - a) * time_dep, element by element
Interpolate(a, b, time_dep) == VShift(VScale(time_dep, FSub(b, a)), a)

\* _npv_unaverted_impact: [raised, val]; risk_present is None when not given
_npv_unaverted_impact(self, risk_future, disc_rates, time_dep, risk_present) ==
    IF risk_present.some /\ risk_present.v # R(0)
    THEN net_present_value(disc_rates, self.present_year, self.future_year,
                           Interpolate(risk_present.v, risk_future, time_dep))
    ELSE net_present_value(disc_rates, self.present_year, self.future_year,
                           VScale(time_dep, risk_future))

\* the lookups of _cost_ben_one that raise KeyError
CostBenOneKeyError(self, meas_name, meas_val) ==
    \/ ~DHas(self.imp_meas_future, NO_MEASURE)
    \/ "risk_transf" \notin DOMAIN meas_val
    \/ /\ self.imp_meas_present.keys # <<>>
       /\ \/ ~DHas(self.imp_meas_present, NO_MEASURE)
          \/ ~DHas(self.imp_meas_present, meas_name)

\* risk without measures minus risk with the measure, in one snapshot
SnapshotBenefit(imp_dict, meas_risk) == FSub(imp_dict.val[NO_MEASURE].risk, meas_risk)

\* yearly benefit of a measure, before discounting
MeasBenefitSeq(self, meas_name, meas_val, time_dep) ==
    IF self.imp_meas_present.keys # <<>>
    THEN Interpolate(SnapshotBenefit(self.imp_meas_present,
                                     self.imp_meas_present.val[meas_name].risk),
                     SnapshotBenefit(self.imp_meas_future, meas_val.risk), time_dep)
    ELSE VScale(time_dep, SnapshotBenefit(self.imp_meas_future, meas_val.risk))

\* the yearly risk transfer without the weights of the years
MeasRiskTrSeq_Unweighted(self, meas_name, meas_val, time_dep) ==
    [i \in 1..Len(time_dep) |-> meas_val.risk_transf]

\* yearly risk transfer of a measure, before discounting
MeasRiskTrSeq(self, meas_name, meas_val, time_dep) ==
    IF self.imp_meas_present.keys # <<>>
    THEN Interpolate(self.imp_meas_present.val[meas_name].risk_transf,
                     meas_val.risk_transf, time_dep)
    ELSE VScale(time_dep, meas_val.risk_transf)

\* the ratio turned upside down
CostBenRatio_Inverted(cost, risk_tr, meas_ben) == FDiv(meas_ben, FAdd(cost, risk_tr))

\* the ratio stored for a measure
CostBenRatio(cost, risk_tr, meas_ben) == FDiv(FAdd(cost, risk_tr), meas_ben)

\* the end of _cost_ben_one, given the outcomes of its two net_present_value calls
StoreCostBen(self, meas_name, meas_val, meas_ben, risk_tr) ==
    IF meas_ben.raised THEN Outcome(self, TRUE, 1)
    ELSE IF risk_tr.raised THEN Outcome(self, TRUE, 2)
    ELSE Outcome([self EXCEPT
                    !.benefit = MPut(@, meas_name, meas_ben.val),
                    !.cost_ben_ratio = MPut(@, meas_name,
                        CostBenRatio(meas_val.cost, risk_tr.val, meas_ben.val))],
                 FALSE, 2)

\* _cost_ben_one
_cost_ben_one(self, meas_name, meas_val, disc_rates, time_dep) ==
    IF CostBenOneKeyError(self, meas_name, meas_val) THEN Outcome(self, TRUE, 0)
    ELSE StoreCostBen(self, meas_name, meas_val,
             net_present_value(disc_rates, self.present_year, self.future_year,
                               MeasBenefitSeq(self, meas_name, meas_val, time_dep)),
             net_present_value(disc_rates, self.present_year, self.future_year,
                               MeasRiskTrSeq(self, meas_name, meas_val, time_dep)))

\* a year range check that lets the empty range through
WrongYearRange_Negative(self) == self.future_year - self.present_year + 1 < 0

\* the year range _calc_cost_benefit refuses
WrongYearRange(self) == self.future_year - self.present_year + 1 <= 0

\* a check for the future snapshot that never fires
NoFutureImpact_Never(self) == FALSE

\* `not self.imp_meas_future`: no future snapshot was computed
NoFutureImpact(self) == self.imp_meas_future.keys = <<>>

\* the risk_present argument of the total-risk call in _calc_cost_benefit
PresentRisk(self) ==
    IF self.imp_meas_present.keys # <<>>
    THEN Some(self.imp_meas_present.val[NO_MEASURE].risk)
    ELSE [some |-> FALSE, v |-> R(0)]

\* the loop of _calc_cost_benefit over imp_meas_future.items(), from item i on;
\* LoopStep continues it after the call made for item i returned `out`
RECURSIVE CostBenefitLoop(_, _, _, _, _)
LoopStep(out, i, disc_rates, time_dep, npv) ==
    IF out.raised THEN Outcome(out.self, TRUE, npv + out.npv)
    ELSE CostBenefitLoop(out.self, i + 1, disc_rates, time_dep, npv + out.npv)

\* the 'no measure' item: tot_climate_risk
TotClimateRisk(self, tot) ==
    IF tot.raised THEN Outcome(self, TRUE, 1)
    ELSE Outcome([self EXCEPT !.tot_climate_risk = tot.val], FALSE, 1)

\* the loop without the case of the 'no measure' item
CostBenefitLoop_All(self, i, disc_rates, time_dep, npv) ==
    IF i > Len(self.imp_meas_future.keys) THEN Outcome(self, FALSE, npv)
    ELSE LoopStep(_cost_ben_one(self, self.imp_meas_future.keys[i],
                                self.imp_meas_future.val[self.imp_meas_future.keys[i]],
                                disc_rates, time_dep),
                  i, disc_rates, time_dep, npv)

CostBenefitLoop(self, i, disc_rates, time_dep, npv) ==
    IF i > Len(self.imp_meas_future.keys) THEN Outcome(self, FALSE, npv)
    ELSE IF self.imp_meas_future.keys[i] = NO_MEASURE
    THEN LoopStep(TotClimateRisk(self,
                      _npv_unaverted_impact(self, self.imp_meas_future.val[NO_MEASURE].risk,
                                            disc_rates, time_dep, PresentRisk(self))),
                  i, disc_rates, time_dep, npv)
    ELSE LoopStep(_cost_ben_one(self, self.imp_meas_future.keys[i],
                                self.imp_meas_future.val[self.imp_meas_future.keys[i]],
                                disc_rates, time_dep),
                  i, disc_rates, time_dep, npv)

\* _calc_cost_benefit after its two checks, given the time dependency array
CostBenefitAll(self, disc_rates, time_dep) ==
    IF time_dep.raised THEN Outcome(self, TRUE, 0)
    ELSE CostBenefitLoop(self, 1, disc_rates, time_dep.val, 0)

\* _calc_cost_benefit
_calc_cost_benefit(self, disc_rates, imp_time_depen) ==
    IF WrongYearRange(self) THEN Outcome(self, TRUE, 0)
    ELSE IF NoFutureImpact(self) THEN Outcome(self, TRUE, 0)
    ELSE CostBenefitAll(self, disc_rates, _time_dependency_array(self, imp_time_depen))

\* an entry that holds the impact whatever save_imp is
MeasEntry_KeepImpact(cost, imp, risk_transf, risk_func, save_imp) ==
    [cost |-> cost, risk |-> ApplyRisk(risk_func, imp), risk_transf |-> risk_transf,
     efc |-> calc_freq_curve(imp), impact |-> imp]

\* one value of an impact_meas mapping
MeasEntry(cost, imp, risk_transf, risk_func, save_imp) ==
    IF save_imp
    THEN [cost |-> cost, risk |-> ApplyRisk(risk_func, imp), risk_transf |-> risk_transf,
          efc |-> calc_freq_curve(imp), impact |-> imp]
    ELSE [cost |-> cost, risk |-> ApplyRisk(risk_func, imp), risk_transf |-> risk_transf,
          efc |-> calc_freq_curve(imp)]

\* the entry of one measure, from what measure.calc_impact returned
MeasureEntry(measure, res, risk_func, save_imp) ==
    MeasEntry(measure.cost, res.imp, res.risk_transf, risk_func, save_imp)

\* the loop of _calc_impact_measures over the measures, from measure i on
RECURSIVE ImpactMeasLoop(_, _, _, _, _, _, _)
ImpactMeasLoop(impact_meas, measures, i, hazard, exposures, risk_func, save_imp) ==
    IF i > Len(measures) THEN impact_meas
    ELSE ImpactMeasLoop(
             DPut(impact_meas, measures[i].name,
                  MeasureEntry(measures[i], Measure_calc_impact(measures[i], exposures, hazard),
                               risk_func, save_imp)),
             measures, i + 1, hazard, exposures, risk_func, save_imp)

\* the end of _calc_impact_measures: the mapping of `when` is replaced
SaveImpactMeas(self, when, impact_meas) ==
    IF when = "future"
    THEN [self EXCEPT !.imp_meas_future = impact_meas]
    ELSE [self EXCEPT !.imp_meas_present = impact_meas]

\* _calc_impact_measures
_calc_impact_measures(self, hazard, exposures, meas_set, when, risk_func, save_imp) ==
    SaveImpactMeas(self, when,
        ImpactMeasLoop(DPut(EmptyDict, NO_MEASURE,
                            MeasEntry(R(0), Impact_calc(exposures, hazard), R(0),
                                      risk_func, save_imp)),
                       get_measure(meas_set, hazard.haz_type), 1,
                       hazard, exposures, risk_func, save_imp))

\* _print_results: changes nothing; the maximum of no benefit at all raises
_print_results(self) ==
    IF DOMAIN self.benefit = {} THEN Outcome(self, TRUE, 0) ELSE Outcome(self, FALSE, 0)

\* a hazard or entity argument left at None
NoHazard == [id |-> "None", haz_type |-> "None"]

NoEntity ==
    [id |-> "None",
     exposures |-> [id |-> "None", ref_year |-> 0, value_unit |-> "None"],
     measures |-> <<>>,
     disc_rates |-> [rate |-> R(0)]]

IsNone(x) == x.id = "None"

\* the measure colours calc saves first
RECURSIVE SaveColors(_, _, _)
SaveColors(color_rgb, measures, i) ==
    IF i > Len(measures) THEN color_rgb
    ELSE SaveColors(MPut(color_rgb, measures[i].name, measures[i].color_rgb), measures, i + 1)

\* the first statements of calc: present year, unit, colours
CalcHead(self, hazard, entity) ==
    [self EXCEPT
       !.present_year = entity.exposures.ref_year,
       !.unit = entity.exposures.value_unit,
       !.color_rgb = SaveColors(@, get_measure(entity.measures, hazard.haz_type), 1)]

\* future_year defaulted to the module's default future year
DefaultFutureYear_Constant(entity, future_year) ==
    IF future_year.some THEN future_year.v ELSE DEF_FUTURE_YEAR

\* future_year as defaulted by calc
DefaultFutureYear(entity, future_year) ==
    IF future_year.some THEN future_year.v ELSE entity.exposures.ref_year + 1

\* one branch of calc: future_year is set, then the future snapshot computed
FutureSnapshot(self, year, hazard, entity, risk_func, save_imp) ==
    _calc_impact_measures([self EXCEPT !.future_year = year], hazard, entity.exposures,
                          entity.measures, "future", risk_func, save_imp)

\* the branches of calc that follow the present snapshot
WithPresent(s1, hazard, entity, haz_future, ent_future, fut_year, risk_func, save_imp) ==
    IF ~IsNone(haz_future) /\ ~IsNone(ent_future)
    THEN FutureSnapshot(s1, ent_future.exposures.ref_year, haz_future, ent_future,
                        risk_func, save_imp)
    ELSE IF ~IsNone(haz_future)
    THEN FutureSnapshot(s1, fut_year, haz_future, entity, risk_func, save_imp)
    ELSE FutureSnapshot(s1, ent_future.exposures.ref_year, hazard, ent_future,
                        risk_func, save_imp)

\* calc from `if not haz_future and not ent_future` to the snapshots, s0 being
\* the object after the first statements
CalcBranches(s0, hazard, entity, haz_future, ent_future, fut_year, risk_func, save_imp) ==
    IF IsNone(haz_future) /\ IsNone(ent_future)
    THEN FutureSnapshot(s0, fut_year, hazard, entity, risk_func, save_imp)
    ELSE WithPresent(_calc_impact_measures(s0, hazard, entity.exposures, entity.measures,
                                           "present", risk_func, save_imp),
                     hazard, entity, haz_future, ent_future, fut_year, risk_func, save_imp)

\* calc up to the call of _calc_cost_benefit
CalcSnapshots(self, hazard, entity, haz_future, ent_future, future_year, risk_func, save_imp) ==
    CalcBranches(CalcHead(self, hazard, entity), hazard, entity, haz_future, ent_future,
                 DefaultFutureYear(entity, future_year), risk_func, save_imp)

\* the exponent handed on as it was given, without default
CalcTimeDepen_NoDefault(haz_future, ent_future, imp_time_depen) == imp_time_depen

\* the exponent calc hands on: 1 by default when a future input is given
CalcTimeDepen(haz_future, ent_future, imp_time_depen) ==
    IF IsNone(haz_future) /\ IsNone(ent_future) THEN imp_time_depen
    ELSE IF imp_time_depen.some THEN imp_time_depen ELSE Some(1)

\* the last statement of calc, cb being the outcome of _calc_cost_benefit
CalcTail(cb) ==
    IF cb.raised THEN cb ELSE Outcome(cb.self, _print_results(cb.self).raised, cb.npv)

\* calc
calc(self, hazard, entity, haz_future, ent_future, future_year, risk_func, imp_time_depen, save_imp) ==
    CalcTail(_calc_cost_benefit(
                 CalcSnapshots(self, hazard, entity, haz_future, ent_future, future_year,
                               risk_func, save_imp),
                 entity.disc_rates,
                 CalcTimeDepen(haz_future, ent_future, imp_time_depen)))

\* the lookups and the indexing of _combine_imp_meas that raise
\* (KeyError for a missing entry or a missing 'impact', IndexError for no name)
CombineRaises(imp_dict, in_meas_names) ==
    \/ in_meas_names = <<>>
    \/ ~DHas(imp_dict, NO_MEASURE)
    \/ "impact" \notin DOMAIN imp_dict.val[NO_MEASURE]
    \/ \E i \in 1..Len(in_meas_names) :
          \/ ~DHas(imp_dict, in_meas_names[i])
          \/ "impact" \notin DOMAIN imp_dict.val[in_meas_names[i]]

\* sum_ben: the sum over the names of the per-event averted damage
RECURSIVE SumBen(_, _, _)
SumBen(imp_dict, in_meas_names, i) ==
    IF i > Len(in_meas_names)
    THEN [e \in 1..Len(imp_dict.val[NO_MEASURE].impact.at_event) |-> R(0)]
    ELSE VAdd(VSub(imp_dict.val[NO_MEASURE].impact.at_event,
                           imp_dict.val[in_meas_names[i]].impact.at_event),
               SumBen(imp_dict, in_meas_names, i + 1))

\* the difference without the floor
FloorAtZero_None(base, sum_ben) == [e \in 1..Len(base) |-> FSub(base[e], sum_ben[e])]

\* np.maximum(base - sum_ben, 0)
FloorAtZero(base, sum_ben) ==
    [e \in 1..Len(base) |-> FMax(FSub(base[e], sum_ben[e]), R(0))]

\* the combined loss counted from the first measure's loss, not the baseline
CombinedLoss_FromTemplate(imp_dict, in_meas_names) ==
    FloorAtZero(imp_dict.val[in_meas_names[1]].impact.at_event,
                SumBen(imp_dict, in_meas_names, 1))

\* per-event loss of the combination, before the risk transfer layer
CombinedLoss(imp_dict, in_meas_names) ==
    FloorAtZero(imp_dict.val[NO_MEASURE].impact.at_event, SumBen(imp_dict, in_meas_names, 1))

\* the layer with attachment and cover taken in the wrong order
ImpLayer_Swapped(at_event, risk_transf) ==
    [e \in 1..Len(at_event) |->
        FMin(FMax(FSub(at_event[e], risk_transf.cover), R(0)), risk_transf.attachment)]

\* the layer of risk transfer (attachment, cover) on per-event losses
ImpLayer(at_event, risk_transf) ==
    [e \in 1..Len(at_event) |->
        FMin(FMax(FSub(at_event[e], risk_transf.attachment), R(0)), risk_transf.cover)]

NoRiskTransf == [attachment |-> R(0), cover |-> R(0)]

\* risk_transf=(0, np.inf): a layer from the first unit of loss, without cap
FullTransfer == [attachment |-> R(0), cover |-> Inf(1)]

\* costs of the combined measures, added
RECURSIVE SumCost(_, _, _)
SumCost(imp_dict, in_meas_names, i) ==
    IF i > Len(in_meas_names) THEN R(0)
    ELSE FAdd(imp_dict.val[in_meas_names[i]].cost, SumCost(imp_dict, in_meas_names, i + 1))

\* the deep copy with at_event replaced and aai_agg left as it was
NewImpact_StaleAai(template, at_event) ==
    [at_event |-> at_event, frequency |-> template.frequency, aai_agg |-> template.aai_agg]

\* new_imp: the deep copy of the first measure's impact with its at_event and
\* aai_agg replaced
NewImpact(template, at_event) ==
    [at_event |-> at_event,
     frequency |-> template.frequency,
     aai_agg |-> VSum(VMul(at_event, template.frequency))]

\* the entry stored under new_name, from new_imp and the risk transfer
NewEntry(new_imp, cost, risk_transfer, risk_func) ==
    [impact |-> new_imp,
     efc |-> calc_freq_curve(new_imp),
     risk |-> ApplyRisk(risk_func, new_imp),
     cost |-> cost,
     risk_transf |-> risk_transfer]

\* the layer counted as transferred and left in the loss as well
LayeredEntry_LossKept(template, loss, imp_layer, cost, risk_func) ==
    NewEntry(NewImpact(template, loss), cost, VSum(VMul(imp_layer, template.frequency)),
             risk_func)

\* the effect of the risk transfer layer imp_layer on the combined loss
LayeredEntry(template, loss, imp_layer, cost, risk_func) ==
    NewEntry(NewImpact(template, FloorAtZero(loss, imp_layer)), cost,
             VSum(VMul(imp_layer, template.frequency)), risk_func)

\* the entry for the combined loss
EntryOfLoss(template, loss, cost, risk_transf, risk_func) ==
    IF risk_transf # NoRiskTransf
    THEN LayeredEntry(template, loss, ImpLayer(loss, risk_transf), cost, risk_func)
    ELSE NewEntry(NewImpact(template, loss), cost, R(0), risk_func)

\* the entry _combine_imp_meas stores under new_name
CombinedEntry(imp_dict, in_meas_names, cost, risk_transf, risk_func) ==
    EntryOfLoss(imp_dict.val[in_meas_names[1]].impact,
                CombinedLoss(imp_dict, in_meas_names), cost, risk_transf, risk_func)

\* the 'cost' lookups raise KeyError: they are made after imp_dict[new_name]
\* was replaced by a new dict, which has no 'cost' yet
CostLookupRaises(imp_dict, in_meas_names, new_name) ==
    \E i \in 1..Len(in_meas_names) :
        \/ in_meas_names[i] = new_name
        \/ "cost" \notin DOMAIN imp_dict.val[in_meas_names[i]]

\* the entry as it stands when the 'cost' lookup raises
WithoutCost(entry) == [impact |-> entry.impact, efc |-> entry.efc, risk |-> entry.risk]

\* the mapping of `when`
ImpDict(self, when) ==
    IF when = "future" THEN self.imp_meas_future ELSE self.imp_meas_present

\* _combine_imp_meas
_combine_imp_meas(self, in_meas_names, new_name, risk_transf, risk_func, when) ==
    IF CombineRaises(ImpDict(self, when), in_meas_names) THEN Outcome(self, TRUE, 0)
    ELSE IF CostLookupRaises(ImpDict(self, when), in_meas_names, new_name)
    THEN Outcome(SaveImpactMeas(self, when,
                     DPut(ImpDict(self, when), new_name,
                          WithoutCost(CombinedEntry(ImpDict(self, when), in_meas_names,
                                                    R(0), risk_transf, risk_func)))),
                 TRUE, 0)
    ELSE Outcome(SaveImpactMeas(self, when,
                     DPut(ImpDict(self, when), new_name,
                          CombinedEntry(ImpDict(self, when), in_meas_names,
                                        SumCost(ImpDict(self, when), in_meas_names, 1),
                                        risk_transf, risk_func))),
                 FALSE, 0)

\* the colour combine_measures stores before anything else
SetNewColor(self, new_name, new_color) ==
    [self EXCEPT !.color_rgb = MPut(@, new_name, new_color)]

\* the exponent used as it was given, without default
CombineTimeDepen_NoDefault(self, imp_time_depen) == imp_time_depen

\* the exponent combine_measures uses: 1 by default with a present snapshot
CombineTimeDepen(self, imp_time_depen) ==
    IF self.imp_meas_present.keys # <<>> /\ ~imp_time_depen.some
    THEN Some(1)
    ELSE imp_time_depen

\* the last two statements of combine_measures
CombineCostBen(self, new_name, disc_rates, time_dep) ==
    IF time_dep.raised THEN Outcome(self, TRUE, 0)
    ELSE _cost_ben_one(self, new_name, self.imp_meas_future.val[new_name],
                       disc_rates, time_dep.val)

\* combine_measures once both snapshots are combined (comb is the outcome)
CombineTail(comb, new_name, disc_rates, imp_time_depen) ==
    IF comb.raised THEN comb
    ELSE CombineCostBen(comb.self, new_name, disc_rates,
             _time_dependency_array(comb.self, CombineTimeDepen(comb.self, imp_time_depen)))

\* combine_measures after the future snapshot is combined (fut is the outcome)
CombinePresent(fut, in_meas_names, new_name, risk_transf, risk_func) ==
    IF fut.raised \/ fut.self.imp_meas_present.keys = <<>> THEN fut
    ELSE _combine_imp_meas(fut.self, in_meas_names, new_name, risk_transf, risk_func,
                           "present")

\* combine_measures
combine_measures(self, in_meas_names, new_name, new_color, disc_rates, risk_transf, imp_time_depen, risk_func) ==
    CombineTail(
        CombinePresent(
            _combine_imp_meas(SetNewColor(self, new_name, new_color), in_meas_names,
                              new_name, risk_transf, risk_func, "future"),
            in_meas_names, new_name, risk_transf, risk_func),
        new_name, disc_rates, imp_time_depen)

(***************************************************************************)
(* The world the calls draw their arguments from                           *)
(***************************************************************************)
Hazard(id) == [id |-> id, haz_type |-> "TC"]

Measure(name, cost, color) ==
    [name |-> name, cost |-> R(cost), color_rgb |-> color, haz_type |-> "TC"]

Entity(id, exp_id, ref_year, measures, rate) ==
    [id |-> id,
     exposures |-> [id |-> exp_id, ref_year |-> ref_year, value_unit |-> "USD"],
     measures |-> measures,
     disc_rates |-> [rate |-> rate]]

StdMeasures ==
    <<Measure("A", 10, "red"), Measure("B", 30, "green"),
      Measure("C", 5, "blue"), Measure("G", 100, "grey")>>

\* present entity, flat discount rate 0%
E20 == Entity("E20", "X20", 2020, StdMeasures, R(0))

\* present entity, flat discount rate 25%
E20R == Entity("E20R", "X20", 2020, StdMeasures, Q(1, 4))

\* present entity with a fifth measure, W, that makes every loss worse
E20W == Entity("E20W", "X20", 2020, Append(StdMeasures, Measure("W", 1, "pink")), Q(1, 4))

\* present entity whose exposures have no value yet: every loss is 0
Z20 == Entity("Z20", "X0", 2020, StdMeasures, Q(1, 4))

\* future entity with the measures of the present one
E22 == Entity("E22", "X22", 2022, StdMeasures, R(0))

\* future entity with a measure D the present entity does not have
E22D ==
    Entity("E22D", "X22", 2022,
           <<Measure("A", 10, "red"), Measure("D", 20, "cyan"), Measure("B", 30, "green")>>,
           R(0))

\* future entity that keeps only measure A
E22S == Entity("E22S", "X22", 2022, <<Measure("A", 10, "red")>>, R(0))

\* an entity of the year before the present one
E19 == Entity("E19", "X19", 2019, StdMeasures, R(0))

\* entities whose only measure has no effect, at no cost and at a cost
N0 == Entity("N0", "X20", 2020, <<Measure("N", 0, "white")>>, R(0))

N5 == Entity("N5", "X20", 2020, <<Measure("N", 5, "white")>>, Q(1, 4))

\* an entity whose only measure is for another hazard type
EFL ==
    Entity("EFL", "X20", 2020,
           <<[name |-> "F", cost |-> R(7), color_rgb |-> "brown", haz_type |-> "FL"]>>, R(0))

CalcArgs(entities, haz_futures, ent_futures, future_years, risk_funcs, depens, save_imps) ==
    [hazard : {Hazard("H")}, entity : entities, haz_future : haz_futures,
     ent_future : ent_futures, future_year : future_years, risk_func : risk_funcs,
     imp_time_depen : depens, save_imp : save_imps]

CombineArgs(name_lists, new_names, disc_rates, risk_transfs, depens, risk_funcs) ==
    [in_meas_names : name_lists, new_name : new_names, new_color : {"black"},
     disc_rates : disc_rates, risk_transf : risk_transfs, imp_time_depen : depens,
     risk_func : risk_funcs]

\* arguments of the free-running specification
CalcChoices ==
    CalcArgs({E20}, {NoHazard, Hazard("HF")}, {NoEntity, E22, E22D},
             {None, Some(2019), Some(2020)}, {"risk_aai_agg"}, {None, Some(2)}, {TRUE, FALSE})

CombineChoices ==
    CombineArgs({<<"A", "B">>, <<"A", "D">>}, {"AB", "A", NO_MEASURE},
                {[rate |-> R(0)]},
                {NoRiskTransf, [attachment |-> R(50), cover |-> R(100)]},
                {None}, {"risk_aai_agg"})

CostBenefitChoices == [disc_rates : {[rate |-> Q(1, 4)]}, imp_time_depen : {None, Some(1)}]

\* arguments of a single calc on a new object
CalcOnceChoices ==
    CalcArgs({E20, E20R, Z20, N0, N5, EFL}, {NoHazard, Hazard("HF")},
             {NoEntity, E22, E22S, E22D, E19},
             {None, Some(2019), Some(2020), Some(2022)}, {"risk_aai_agg", "risk_rp_100"},
             {None, Some(0), Some(1), Some(2)}, {TRUE, FALSE})

\* number of calls in a run of the free-running specification
MaxOps == 2

(***************************************************************************)
(* State: the attributes of one CostBenefit object, and a record of the    *)
(* last call made on it; for the runs with several objects, the dicts the  *)
(* objects refer to (heap) and the objects themselves (inst)               *)
(***************************************************************************)
VARIABLES present_year, future_year, tot_climate_risk, unit, color_rgb, benefit,
          cost_ben_ratio, imp_meas_future, imp_meas_present, last, nops, heap, inst

obj == <<present_year, future_year, tot_climate_risk, unit, color_rgb, benefit,
         cost_ben_ratio, imp_meas_future, imp_meas_present>>

vars == <<present_year, future_year, tot_climate_risk, unit, color_rgb, benefit,
          cost_ben_ratio, imp_meas_future, imp_meas_present, last, nops, heap, inst>>

Self ==
    [present_year |-> present_year,
     future_year |-> future_year,
     tot_climate_risk |-> tot_climate_risk,
     unit |-> unit,
     color_rgb |-> color_rgb,
     benefit |-> benefit,
     cost_ben_ratio |-> cost_ben_ratio,
     imp_meas_future |-> imp_meas_future,
     imp_meas_present |-> imp_meas_present]

\* the call leaves the object as `out` says and is recorded in `last`
Returns(out, op, args) ==
    /\ present_year' = out.self.present_year
    /\ future_year' = out.self.future_year
    /\ tot_climate_risk' = out.self.tot_climate_risk
    /\ unit' = out.self.unit
    /\ color_rgb' = out.self.color_rgb
    /\ benefit' = out.self.benefit
    /\ cost_ben_ratio' = out.self.cost_ben_ratio
    /\ imp_meas_future' = out.self.imp_meas_future
    /\ imp_meas_present' = out.self.imp_meas_present
    /\ last' = [op |-> op, raised |-> out.raised, npv |-> out.npv,
                fresh |-> Self = CostBenefit_init, args |-> args]
    /\ nops' = nops + 1
    /\ UNCHANGED <<heap, inst>>

Init ==
    /\ present_year = CostBenefit_init.present_year
    /\ future_year = CostBenefit_init.future_year
    /\ tot_climate_risk = CostBenefit_init.tot_climate_risk
    /\ unit = CostBenefit_init.unit
    /\ color_rgb = CostBenefit_init.color_rgb
    /\ benefit = CostBenefit_init.benefit
    /\ cost_ben_ratio = CostBenefit_init.cost_ben_ratio
    /\ imp_meas_future = CostBenefit_init.imp_meas_future
    /\ imp_meas_present = CostBenefit_init.imp_meas_present
    /\ last = [op |-> "init", raised |-> FALSE, npv |-> 0, fresh |-> TRUE, args |-> <<>>]
    /\ nops = 0
    /\ heap = <<>>
    /\ inst = <<>>

CallCalc(a) ==
    \E out \in {calc(Self, a.hazard, a.entity, a.haz_future, a.ent_future, a.future_year,
                     a.risk_func, a.imp_time_depen, a.save_imp)} :
        Returns(out, "calc", a)

CallCombine(a) ==
    \E out \in {combine_measures(Self, a.in_meas_names, a.new_name, a.new_color,
                                 a.disc_rates, a.risk_transf, a.imp_time_depen,
                                 a.risk_func)} :
        Returns(out, "combine_measures", a)

CallCostBenefit(a) ==
    \E out \in {_calc_cost_benefit(Self, a.disc_rates, a.imp_time_depen)} :
        Returns(out, "_calc_cost_benefit", a)

\* free-running specification: any MaxOps calls on one object
Calc == nops < MaxOps /\ \E a \in CalcChoices : CallCalc(a)

Combine == nops < MaxOps /\ \E a \in CombineChoices : CallCombine(a)

CostBenefit == nops < MaxOps /\ \E a \in CostBenefitChoices : CallCostBenefit(a)

Next == Calc \/ Combine \/ CostBenefit

Spec == Init /\ [][Next]_vars

\* one calc on a new object, with arguments from the wide sets
CalcOnce == nops = 0 /\ \E a \in CalcOnceChoices : CallCalc(a)

SpecCalc == Init /\ [][CalcOnce]_vars

\* a calc that keeps the impacts, then the measures plan[1] and plan[2]
\* combined to XY, XY and plan[3] combined to XY_Z, and the three measures
\* combined to XYZ, all with the same discount rates, exponent, risk function
\* and risk transfer
AssocCalcChoices ==
    CalcArgs({E20W}, {NoHazard, Hazard("HF")}, {NoEntity}, {None, Some(2022)},
             {"risk_aai_agg", "risk_rp_100"}, {None}, {TRUE})

AssocPlans ==
    {p \in [1..3 -> {"A", "B", "C", "G", "W"}] : p[1] # p[2] /\ p[1] # p[3] /\ p[2] # p[3]}

AssocCombineChoices ==
    [in_meas_names : {<<p[1], p[2]>> : p \in AssocPlans}, new_name : {"XY"},
     new_color : {"black"}, disc_rates : {[rate |-> Q(1, 4)]},
     risk_transf : {NoRiskTransf, [attachment |-> R(50), cover |-> R(100)], FullTransfer,
                    [attachment |-> R(0), cover |-> R(50)],
                    [attachment |-> R(150), cover |-> R(1000)],
                    [attachment |-> R(50), cover |-> R(0)]},
     imp_time_depen : {None, Some(2)}, risk_func : {"risk_aai_agg", "risk_rp_100"},
     plan : AssocPlans]

AssocCalc == nops = 0 /\ \E a \in AssocCalcChoices : CallCalc(a)

AssocPair ==
    /\ nops = 1
    /\ ~last.raised
    /\ \E a \in AssocCombineChoices :
          a.in_meas_names = <<a.plan[1], a.plan[2]>> /\ CallCombine(a)

AssocStep ==
    /\ nops = 2
    /\ ~last.raised
    /\ CallCombine([last.args EXCEPT !.in_meas_names = <<"XY", last.args.plan[3]>>,
                                     !.new_name = "XY_Z"])

AssocDirect ==
    /\ nops = 3
    /\ ~last.raised
    /\ CallCombine([last.args EXCEPT !.in_meas_names = last.args.plan,
                                     !.new_name = "XYZ"])

NextAssoc == AssocCalc \/ AssocPair \/ AssocStep \/ AssocDirect

SpecAssoc == Init /\ [][NextAssoc]_vars

\* two objects, each constructed on its own, and calls on them in any order
Instances == 1..2

\* number of calls made on each of the two objects
MaxCalls == 2

\* dicts created once and referred to by every object
DictsOf_Shared(i) == CHOOSE a \in Instances : \A b \in Instances : a <= b

\* __init__ creates the dicts of the object it initialises: the dicts of
\* object i are its own
DictsOf(i) == i

\* the dicts an object refers to, as __init__ creates them
NewDicts ==
    [color_rgb |-> CostBenefit_init.color_rgb,
     benefit |-> CostBenefit_init.benefit,
     cost_ben_ratio |-> CostBenefit_init.cost_ben_ratio,
     imp_meas_future |-> CostBenefit_init.imp_meas_future,
     imp_meas_present |-> CostBenefit_init.imp_meas_present]

\* the object __init__ leaves: its numbers and unit, the dicts it refers to,
\* and (for the record) the calls made on it
NewObject(i) ==
    [present_year |-> CostBenefit_init.present_year,
     future_year |-> CostBenefit_init.future_year,
     tot_climate_risk |-> CostBenefit_init.tot_climate_risk,
     unit |-> CostBenefit_init.unit,
     dicts |-> DictsOf(i),
     log |-> <<>>]

\* object i as its methods see it
View(i) ==
    [present_year |-> inst[i].present_year,
     future_year |-> inst[i].future_year,
     tot_climate_risk |-> inst[i].tot_climate_risk,
     unit |-> inst[i].unit,
     color_rgb |-> heap[inst[i].dicts].color_rgb,
     benefit |-> heap[inst[i].dicts].benefit,
     cost_ben_ratio |-> heap[inst[i].dicts].cost_ben_ratio,
     imp_meas_future |-> heap[inst[i].dicts].imp_meas_future,
     imp_meas_present |-> heap[inst[i].dicts].imp_meas_present]

\* a call on object i returned `out`: the attributes go to the object, the
\* contents of the dicts to the dicts the object refers to
Store(i, out, call) ==
    /\ inst' = [inst EXCEPT ![i] =
                   [present_year |-> out.self.present_year,
                    future_year |-> out.self.future_year,
                    tot_climate_risk |-> out.self.tot_climate_risk,
                    unit |-> out.self.unit,
                    dicts |-> inst[i].dicts,
                    log |-> Append(inst[i].log, call)]]
    /\ heap' = [heap EXCEPT ![inst[i].dicts] =
                   [color_rgb |-> out.self.color_rgb,
                    benefit |-> out.self.benefit,
                    cost_ben_ratio |-> out.self.cost_ben_ratio,
                    imp_meas_future |-> out.self.imp_meas_future,
                    imp_meas_present |-> out.self.imp_meas_present]]
    /\ UNCHANGED <<obj, last, nops>>

TwoCalcChoices ==
    CalcArgs({E20}, {NoHazard, Hazard("HF")}, {NoEntity}, {Some(2022)}, {"risk_aai_agg"},
             {None}, {TRUE})

TwoCombineChoices ==
    CombineArgs({<<"A", "B">>}, {"AB"}, {[rate |-> R(0)]}, {NoRiskTransf, FullTransfer},
                {None}, {"risk_aai_agg"})

InitTwo ==
    /\ Init!1 /\ Init!2 /\ Init!3 /\ Init!4 /\ Init!5 /\ Init!6 /\ Init!7 /\ Init!8
    /\ Init!9 /\ Init!10 /\ Init!11
    /\ inst = [i \in Instances |-> NewObject(i)]
    /\ heap = [a \in {DictsOf(i) : i \in Instances} |-> NewDicts]

TwoCalc(i) ==
    /\ Len(inst[i].log) < MaxCalls
    /\ \E a \in TwoCalcChoices :
          \E out \in {calc(View(i), a.hazard, a.entity, a.haz_future, a.ent_future,
                           a.future_year, a.risk_func, a.imp_time_depen, a.save_imp)} :
              Store(i, out, [op |-> "calc", args |-> a])

TwoCombine(i) ==
    /\ Len(inst[i].log) < MaxCalls
    /\ \E a \in TwoCombineChoices :
          \E out \in {combine_measures(View(i), a.in_meas_names, a.new_name, a.new_color,
                                       a.disc_rates, a.risk_transf, a.imp_time_depen,
                                       a.risk_func)} :
              Store(i, out, [op |-> "combine_measures", args |-> a])

CalcOnOne == \E i \in Instances : TwoCalc(i)

CombineOnOne == \E i \in Instances : TwoCombine(i)

NextTwo == CalcOnOne \/ CombineOnOne

SpecTwo == InitTwo /\ [][NextTwo]_vars

(***************************************************************************)
(* Properties of the time dependency and of the validation of calc         *)
(***************************************************************************)
\* the call recorded in `last` is a calc of the years 2020 to 2022 with
\* exponent 1 and a 0% discount rate, with risk 100 at present and 200 in future
C1_Scenario ==
    /\ last.op = "calc"
    /\ present_year = 2020 /\ future_year = 2022
    /\ last.args.entity.disc_rates.rate = R(0)
    /\ CalcTimeDepen(last.args.haz_future, last.args.ent_future,
                     last.args.imp_time_depen) = Some(1)
    /\ DHas(imp_meas_present, NO_MEASURE) /\ DHas(imp_meas_future, NO_MEASURE)
    /\ imp_meas_present.val[NO_MEASURE].risk = R(100)
    /\ imp_meas_future.val[NO_MEASURE].risk = R(200)

\* the measures with risk 80 at present and 150 in future
C1_Measures ==
    {m \in Range(imp_meas_future.keys) :
        /\ DHas(imp_meas_present, m)
        /\ imp_meas_present.val[m].risk = R(80)
        /\ imp_meas_future.val[m].risk = R(150)}

\* C1: with present risk 100, future risk 200, present_year 2020, future_year
\* 2022, exponent 1 and a 0% discount rate, the time dependency array is
\* [0, 0.5, 1] and tot_climate_risk is 100 + 150 + 200 = 450; a measure with
\* present risk 80 and future risk 150 has the yearly benefits [20, 35, 50]
\* and the benefit 105
C1_TimeDependencyExample ==
    C1_Scenario =>
        /\ _time_dependency_array(Self, Some(1))
               = [raised |-> FALSE, val |-> <<R(0), Q(1, 2), R(1)>>]
        /\ tot_climate_risk = R(450)
        /\ \A m \in C1_Measures :
              /\ MeasBenefitSeq(Self, m, imp_meas_future.val[m], <<R(0), Q(1, 2), R(1)>>)
                     = <<R(20), R(35), R(50)>>
              /\ m \in DOMAIN benefit
              /\ benefit[m] = R(105)

C1_Witness ==
    /\ C1_Scenario
    /\ ~last.raised
    /\ "A" \in C1_Measures
    /\ benefit["A"] = R(105)
    /\ tot_climate_risk = R(450)

\* the exponent in effect in the call recorded in `last`
C2_Exponent ==
    IF last.op = "calc"
    THEN CalcTimeDepen(last.args.haz_future, last.args.ent_future, last.args.imp_time_depen)
    ELSE CombineTimeDepen(Self, last.args.imp_time_depen)

\* C2: when present_year equals future_year and a non-null exponent is in
\* effect, calc and combine_measures fail with a validation error (they do
\* not go on to a NaN time dependency array, benefit or tot_climate_risk)
C2_EqualYearsRejected ==
    (/\ last.op \in {"calc", "combine_measures"}
     /\ present_year = future_year
     /\ C2_Exponent.some)
        => last.raised

\* C3: a calc whose year range is empty (future_year - present_year + 1 <= 0)
\* fails before any discounting is attempted: no net present value is
\* computed, and benefit, cost_ben_ratio and tot_climate_risk are not written
C3_WrongYearsFailBeforeDiscounting ==
    [][(/\ nops' = nops + 1
        /\ last'.op = "calc"
        /\ future_year' - present_year' + 1 <= 0)
          => /\ last'.raised
             /\ last'.npv = 0
             /\ benefit' = benefit
             /\ cost_ben_ratio' = cost_ben_ratio
             /\ tot_climate_risk' = tot_climate_risk]_vars

\* a failed calc with an empty year range on an object that holds the benefits
\* of an earlier call
C3_Witness ==
    /\ last.op = "calc"
    /\ future_year - present_year + 1 <= 0
    /\ last.raised
    /\ last.npv = 0
    /\ ~last.fresh
    /\ DOMAIN benefit # {}

\* C4: a calc that fails a validation (empty year range, future measure
\* missing from the present snapshot) leaves every result attribute as it was
\* before the call
C4_FailedCalcChangesNothing ==
    [][(nops' = nops + 1 /\ last'.op = "calc" /\ last'.raised) => obj' = obj]_vars

\* the entry of `name` in the snapshot d is missing or has no 'impact'
C5_LacksImpact(d, name) == ~DHas(d, name) \/ "impact" \notin DOMAIN d.val[name]

\* C5: combine_measures with a name whose entry has no retained 'impact'
\* (save_imp=False, or the name is absent from a snapshot) fails and leaves
\* color_rgb, imp_meas_future, imp_meas_present, benefit and cost_ben_ratio
\* as they were: no entry for new_name appears in them
C5_FailedCombineChangesNothing ==
    [][(/\ nops' = nops + 1
        /\ last'.op = "combine_measures"
        /\ \E i \in DOMAIN last'.args.in_meas_names :
              \/ C5_LacksImpact(imp_meas_future, last'.args.in_meas_names[i])
              \/ /\ imp_meas_present.keys # <<>>
                 /\ C5_LacksImpact(imp_meas_present, last'.args.in_meas_names[i]))
          => /\ last'.raised
             /\ color_rgb' = color_rgb
             /\ imp_meas_future' = imp_meas_future
             /\ imp_meas_present' = imp_meas_present
             /\ benefit' = benefit
             /\ cost_ben_ratio' = cost_ben_ratio]_vars

\* C6: a combine_measures that succeeds leaves every entry that was in
\* imp_meas_future, imp_meas_present, benefit, cost_ben_ratio and color_rgb
\* before the call in place and unchanged
C6_CombineKeepsEntries ==
    [][(nops' = nops + 1 /\ last'.op = "combine_measures" /\ ~last'.raised)
          => /\ \A k \in Range(imp_meas_future.keys) :
                   DHas(imp_meas_future', k) /\ imp_meas_future'.val[k] = imp_meas_future.val[k]
             /\ \A k \in Range(imp_meas_present.keys) :
                   DHas(imp_meas_present', k)
                   /\ imp_meas_present'.val[k] = imp_meas_present.val[k]
             /\ \A k \in DOMAIN benefit : k \in DOMAIN benefit' /\ benefit'[k] = benefit[k]
             /\ \A k \in DOMAIN cost_ben_ratio :
                   k \in DOMAIN cost_ben_ratio' /\ cost_ben_ratio'[k] = cost_ben_ratio[k]
             /\ \A k \in DOMAIN color_rgb :
                   k \in DOMAIN color_rgb' /\ color_rgb'[k] = color_rgb[k]]_vars

\* the call recorded in `last` is a calc on a new object, without future
\* hazard, future entity or exponent, over the years present_year and
\* present_year + 1, of an entity with a single measure
C8_Scenario ==
    /\ last.op = "calc"
    /\ last.fresh
    /\ IsNone(last.args.haz_future) /\ IsNone(last.args.ent_future)
    /\ ~last.args.imp_time_depen.some
    /\ future_year = present_year + 1
    /\ Len(last.args.entity.measures) = 1
    /\ Len(get_measure(last.args.entity.measures, last.args.hazard.haz_type)) = 1

\* the single measure of the entity, when it leaves the risk at the baseline
C8_IdleMeasures ==
    {i \in 1..Len(last.args.entity.measures) :
        /\ DHas(imp_meas_future, last.args.entity.measures[i].name)
        /\ imp_meas_future.val[last.args.entity.measures[i].name].risk
               = imp_meas_future.val[NO_MEASURE].risk}

\* C8: on a new object, without future inputs and with imp_time_depen=None,
\* a calc over two years with a single measure that leaves the risk at the
\* baseline completes without raising, with benefit 0; the cost_ben_ratio is
\* +infinity when the cost of the measure is positive and NaN when it is 0
C8_IdleMeasureRatio ==
    C8_Scenario =>
        \A i \in C8_IdleMeasures :
            /\ ~last.raised
            /\ last.args.entity.measures[i].name \in DOMAIN benefit
            /\ benefit[last.args.entity.measures[i].name] = R(0)
            /\ last.args.entity.measures[i].name \in DOMAIN cost_ben_ratio
            /\ cost_ben_ratio[last.args.entity.measures[i].name]
                   = IF FLess(R(0), last.args.entity.measures[i].cost) THEN Inf(1) ELSE NaN

C8_Witness ==
    /\ C8_Scenario
    /\ ~last.raised
    /\ C8_IdleMeasures = {1}
    /\ FLess(R(0), last.args.entity.measures[1].cost)
    /\ benefit[last.args.entity.measures[1].name] = R(0)
    /\ cost_ben_ratio[last.args.entity.measures[1].name] = Inf(1)

\* C8 with one ratio for all costs: in the same scenario the cost_ben_ratio is
\* +infinity for every non-negative cost of the measure, 0 included
C8_IdleMeasureRatioInfinite ==
    C8_Scenario =>
        \A i \in C8_IdleMeasures :
            /\ ~last.raised
            /\ last.args.entity.measures[i].name \in DOMAIN benefit
            /\ benefit[last.args.entity.measures[i].name] = R(0)
            /\ last.args.entity.measures[i].name \in DOMAIN cost_ben_ratio
            /\ cost_ben_ratio[last.args.entity.measures[i].name] = Inf(1)

\* C9: on an object whose imp_meas_future is empty, _calc_cost_benefit (with
\* a valid year range) and combine_measures fail, and write no entry to
\* benefit or cost_ben_ratio
C9_NoFutureSnapshotFails ==
    [][(/\ nops' = nops + 1
        /\ imp_meas_future.keys = <<>>
        /\ \/ last'.op = "combine_measures"
           \/ /\ last'.op = "_calc_cost_benefit"
              /\ future_year - present_year + 1 > 0)
          => /\ last'.raised
             /\ benefit' = benefit
             /\ cost_ben_ratio' = cost_ben_ratio]_vars

\* a failed _calc_cost_benefit after a failed combine_measures, on an object
\* that still has no future snapshot
C9_Witness ==
    /\ nops = 2
    /\ last.op = "_calc_cost_benefit"
    /\ last.raised
    /\ future_year - present_year + 1 > 0
    /\ imp_meas_future.keys = <<>>
    /\ DOMAIN color_rgb # {}
    /\ benefit = EmptyMap /\ cost_ben_ratio = EmptyMap

\* the exponents of C10: none, linear and quadratic
C10_Exponents == {None, Some(1), Some(2)}

\* the array td has n elements; without exponent they are all 1, with one
\* they start at 0, end at 1, stay within [0, 1] and never decrease
C10_Shape(td, n, e) ==
    /\ ~td.raised
    /\ Len(td.val) = n
    /\ IF ~e.some
       THEN \A i \in 1..n : td.val[i] = R(1)
       ELSE /\ td.val[1] = R(0)
            /\ td.val[n] = R(1)
            /\ \A i \in 1..n : FLeq(R(0), td.val[i]) /\ FLeq(td.val[i], R(1))
            /\ \A i \in 1..(n - 1) : FLeq(td.val[i], td.val[i + 1])

\* C10: for every year range that passes the validation, the time dependency
\* array has future_year - present_year + 1 elements; with an exponent its
\* first element is 0, its last is 1, all lie in [0, 1] and, the exponent
\* being positive, they never decrease; without exponent they are all 1
C10_TimeDependencyShape ==
    future_year - present_year + 1 > 0 =>
        \A e \in C10_Exponents :
            C10_Shape(_time_dependency_array(Self, e), future_year - present_year + 1, e)

\* the three combinations were made, the last one without raising
C7_Done == nops = 4 /\ last.op = "combine_measures" /\ ~last.raised

\* the mappings that hold a snapshot
C7_Snapshots ==
    IF imp_meas_present.keys # <<>> THEN {imp_meas_future, imp_meas_present}
    ELSE {imp_meas_future}

\* in none of the three combinations does the summed averted damage of an
\* event exceed the loss without measures: the floor at zero is not triggered
C7_NoFloor(d) ==
    \A names \in {<<last.args.plan[1], last.args.plan[2]>>, <<"XY", last.args.plan[3]>>,
                  last.args.plan} :
        \A e \in DOMAIN d.val[NO_MEASURE].impact.at_event :
            FLeq(SumBen(d, names, 1)[e], d.val[NO_MEASURE].impact.at_event[e])

\* C7: without risk transfer and without the floor at zero being triggered,
\* combining x and y to XY and then XY and z gives the same per-event loss,
\* risk, cost, benefit and cost_ben_ratio as combining x, y and z directly
\* with the same discount rates, exponent and risk function
C7_CombineAssociative ==
    (/\ C7_Done
     /\ last.args.risk_transf = NoRiskTransf
     /\ \A d \in C7_Snapshots : C7_NoFloor(d))
        => /\ \A d \in C7_Snapshots :
                 /\ d.val["XY_Z"].impact.at_event = d.val["XYZ"].impact.at_event
                 /\ d.val["XY_Z"].risk = d.val["XYZ"].risk
                 /\ d.val["XY_Z"].cost = d.val["XYZ"].cost
           /\ benefit["XY_Z"] = benefit["XYZ"]
           /\ cost_ben_ratio["XY_Z"] = cost_ben_ratio["XYZ"]

\* A, B and C combined both ways over a present and a future snapshot
C7_Witness ==
    /\ C7_Done
    /\ last.args.risk_transf = NoRiskTransf
    /\ last.args.plan = <<"A", "B", "C">>
    /\ imp_meas_present.keys # <<>>
    /\ \A d \in C7_Snapshots : C7_NoFloor(d)
    /\ benefit["XY_Z"] = benefit["XYZ"]
    /\ IsFinite(benefit["XYZ"]) /\ FLess(R(0), benefit["XYZ"])

\* the snapshots in which the combination recorded in `last` stored its entry
C11_Snapshots ==
    IF imp_meas_present.keys # <<>> THEN {imp_meas_future, imp_meas_present}
    ELSE {imp_meas_future}

\* C11: a combination with attachment 0 and unbounded cover transfers the
\* whole combined loss of every event: the layer equals the combined loss,
\* the loss left in the combined measure is 0 for every event, and risk_transf
\* is the frequency-weighted sum of the combined loss
C11_FullTransferLeavesNoLoss ==
    (/\ last.op = "combine_measures"
     /\ ~last.raised
     /\ last.args.risk_transf = FullTransfer)
        => \A d \in C11_Snapshots :
              /\ ImpLayer(CombinedLoss(d, last.args.in_meas_names), last.args.risk_transf)
                     = CombinedLoss(d, last.args.in_meas_names)
              /\ \A e \in DOMAIN d.val[last.args.new_name].impact.at_event :
                     d.val[last.args.new_name].impact.at_event[e] = R(0)
              /\ d.val[last.args.new_name].risk_transf
                     = VSum(VMul(CombinedLoss(d, last.args.in_meas_names),
                                 d.val[NO_MEASURE].impact.frequency))

\* A and B combined with the full layer over two snapshots: a positive
\* combined loss was transferred
C11_Witness ==
    /\ last.op = "combine_measures"
    /\ ~last.raised
    /\ last.args.risk_transf = FullTransfer
    /\ last.args.in_meas_names = <<"A", "B">>
    /\ imp_meas_present.keys # <<>>
    /\ FLess(R(0), imp_meas_future.val["XY"].risk_transf)
    /\ imp_meas_future.val["XY"].impact.aai_agg = R(0)

\* the time dependency array of the calc recorded in `last`
C12_TimeDep ==
    _time_dependency_array(Self, CalcTimeDepen(last.args.haz_future, last.args.ent_future,
                                               last.args.imp_time_depen)).val

\* time_dep times the constant c, year by year
C12_Times(time_dep, c) == [i \in 1..Len(time_dep) |-> FMul(time_dep[i], c)]

\* the net present value over [present_year, future_year] of val_years
C12_Npv(val_years) ==
    net_present_value(last.args.entity.disc_rates, present_year, future_year, val_years).val

\* benefit and cost_ben_ratio of measure m are those of the sequences
\* ben_seq and tr_seq
C12_Stored(m, ben_seq, tr_seq) ==
    /\ m \in DOMAIN benefit /\ m \in DOMAIN cost_ben_ratio
    /\ benefit[m] = C12_Npv(ben_seq)
    /\ cost_ben_ratio[m] = FDiv(FAdd(imp_meas_future.val[m].cost, C12_Npv(tr_seq)), benefit[m])

\* C12: without a present snapshot, the yearly benefit of every measure is
\* time_dep x (future 'no measure' risk - future risk of the measure), its
\* yearly risk transfer is time_dep x future risk_transf, benefit is the net
\* present value of the first over [present_year, future_year], and
\* cost_ben_ratio is (cost + net present value of the second) / benefit
C12_FutureOnlyBenefit ==
    (last.op = "calc" /\ ~last.raised /\ imp_meas_present.keys = <<>>)
        => \A m \in Range(imp_meas_future.keys) \ {NO_MEASURE} :
              /\ MeasBenefitSeq(Self, m, imp_meas_future.val[m], C12_TimeDep)
                     = C12_Times(C12_TimeDep, FSub(imp_meas_future.val[NO_MEASURE].risk,
                                                   imp_meas_future.val[m].risk))
              /\ MeasRiskTrSeq(Self, m, imp_meas_future.val[m], C12_TimeDep)
                     = C12_Times(C12_TimeDep, imp_meas_future.val[m].risk_transf)
              /\ C12_Stored(m,
                            C12_Times(C12_TimeDep, FSub(imp_meas_future.val[NO_MEASURE].risk,
                                                        imp_meas_future.val[m].risk)),
                            C12_Times(C12_TimeDep, imp_meas_future.val[m].risk_transf))

\* a calc over 2020..2022 with exponent 2 and a discount rate, whose measure C
\* has a risk transfer and a positive benefit
C12_Witness ==
    /\ last.op = "calc" /\ ~last.raised /\ imp_meas_present.keys = <<>>
    /\ last.args.imp_time_depen = Some(2)
    /\ present_year = 2020 /\ future_year = 2022
    /\ last.args.entity.disc_rates.rate = Q(1, 4)
    /\ FLess(R(0), imp_meas_future.val["C"].risk_transf)
    /\ IsFinite(benefit["C"]) /\ FLess(R(0), benefit["C"])
    /\ IsFinite(cost_ben_ratio["C"])

\* the call recorded in `last` is a calc without haz_future, ent_future and
\* exponent that returned
C13_Scenario ==
    /\ last.op = "calc"
    /\ ~last.raised
    /\ IsNone(last.args.haz_future) /\ IsNone(last.args.ent_future)
    /\ ~last.args.imp_time_depen.some

\* C13: after a calc with neither haz_future nor ent_future and without
\* exponent, tot_climate_risk is the net present value over
\* [present_year, future_year] of the future 'no measure' risk repeated
\* every year
C13_TotalRiskOfConstantRisk ==
    C13_Scenario =>
        tot_climate_risk =
            net_present_value(last.args.entity.disc_rates, present_year, future_year,
                              [i \in 1..(future_year - present_year + 1) |->
                                  imp_meas_future.val[NO_MEASURE].risk]).val

\* such a calc on an object that still holds the present snapshot of an
\* earlier calc
C13_Witness ==
    /\ C13_Scenario
    /\ ~last.fresh
    /\ imp_meas_present.keys # <<>>
    /\ future_year = present_year + 1
    /\ imp_meas_future.val[NO_MEASURE].risk = R(100)
    /\ tot_climate_risk = R(200)

\* the object a call leaves when it is made on `self`
C14_After(self, call) ==
    IF call.op = "calc"
    THEN calc(self, call.args.hazard, call.args.entity, call.args.haz_future,
              call.args.ent_future, call.args.future_year, call.args.risk_func,
              call.args.imp_time_depen, call.args.save_imp).self
    ELSE combine_measures(self, call.args.in_meas_names, call.args.new_name,
                          call.args.new_color, call.args.disc_rates, call.args.risk_transf,
                          call.args.imp_time_depen, call.args.risk_func).self

\* the object the calls log[k], log[k+1], ... leave when they run alone on `self`
RECURSIVE C14_Alone(_, _, _)
C14_Alone(self, log, k) ==
    IF k > Len(log) THEN self ELSE C14_Alone(C14_After(self, log[k]), log, k + 1)

\* C14: two objects own disjoint state: however the calc and combine_measures
\* calls on two separately constructed objects are interleaved, each object is
\* in the state its own calls alone lead to; no call on one object changes an
\* attribute of the other
C14_ObjectsOwnTheirState ==
    \A i \in Instances : View(i) = C14_Alone(CostBenefit_init, inst[i].log, 1)

\* both objects went through a calc and a combination, and ended differently
C14_Witness ==
    /\ \A i \in Instances :
          /\ Len(inst[i].log) = 2
          /\ inst[i].log[1].op = "calc"
          /\ inst[i].log[2].op = "combine_measures"
          /\ "AB" \in DOMAIN View(i).benefit
    /\ View(1).benefit # View(2).benefit
    /\ View(1).imp_meas_present # View(2).imp_meas_present

\* a + (b - a) x time_dep, year by year
C15_Between(a, b, time_dep) ==
    [i \in 1..Len(time_dep) |-> FAdd(a, FMul(FSub(b, a), time_dep[i]))]

\* the benefit of measure m in the snapshot d: baseline risk minus its risk
C15_Benefit(d, m) == FSub(d.val[NO_MEASURE].risk, d.val[m].risk)

\* C15: with a present snapshot, the yearly benefit of every measure is
\* present_benefit + (future_benefit - present_benefit) x time_dep, each
\* benefit being the baseline risk minus the risk of the measure in its
\* snapshot; the yearly risk transfer runs the same way from the present to
\* the future risk_transf, and tot_climate_risk is discounted from the
\* 'no measure' risks interpolated the same way
C15_PresentToFutureBenefit ==
    (last.op = "calc" /\ ~last.raised /\ imp_meas_present.keys # <<>>)
        => /\ \A m \in Range(imp_meas_future.keys) \ {NO_MEASURE} :
                 C12_Stored(m,
                     C15_Between(C15_Benefit(imp_meas_present, m),
                                 C15_Benefit(imp_meas_future, m), C12_TimeDep),
                     C15_Between(imp_meas_present.val[m].risk_transf,
                                 imp_meas_future.val[m].risk_transf, C12_TimeDep))
           /\ tot_climate_risk =
                  C12_Npv(C15_Between(imp_meas_present.val[NO_MEASURE].risk,
                                      imp_meas_future.val[NO_MEASURE].risk, C12_TimeDep))

\* a calc from 2020 to the future entity's 2022 with a discount rate: the
\* benefit of A lies between its present and its future benefit times three
C15_Witness ==
    /\ last.op = "calc" /\ ~last.raised /\ imp_meas_present.keys # <<>>
    /\ present_year = 2020 /\ future_year = 2022
    /\ last.args.entity.disc_rates.rate = Q(1, 4)
    /\ C12_TimeDep = <<R(0), Q(1, 2), R(1)>>
    /\ FLess(C15_Benefit(imp_meas_present, "A"), C15_Benefit(imp_meas_future, "A"))
    /\ FLess(R(0), imp_meas_present.val[NO_MEASURE].risk)
    /\ IsFinite(benefit["A"]) /\ IsFinite(tot_climate_risk)

\* a calc whose present 'no measure' risk is 0 and whose future one is not
C15_WitnessNoPresentRisk ==
    /\ last.op = "calc" /\ ~last.raised /\ imp_meas_present.keys # <<>>
    /\ imp_meas_present.val[NO_MEASURE].risk = R(0)
    /\ FLess(R(0), imp_meas_future.val[NO_MEASURE].risk)
    /\ FLess(R(0), tot_climate_risk)

\* the calc recorded in `last` was given a future hazard or a future entity
C16_FutureGiven == ~IsNone(last.args.haz_future) \/ ~IsNone(last.args.ent_future)

\* linear weights over the years: 0, 1/(n-1), ..., 1
C16_Linear == [i \in 1..(future_year - present_year + 1) |->
                  FDiv(R(i - 1), R(future_year - present_year))]

\* the same weight 1 for every year
C16_Ones == [i \in 1..(future_year - present_year + 1) |-> R(1)]

\* the snapshot of the present hazard and entity
C16_PresentInputs ==
    _calc_impact_measures(CostBenefit_init, last.args.hazard, last.args.entity.exposures,
                          last.args.entity.measures, "future", last.args.risk_func,
                          last.args.save_imp).imp_meas_future

\* C16: in a calc on a new object, imp_meas_present is populated if and only
\* if haz_future or ent_future is given; when it is and no exponent is given,
\* the years are weighted linearly (exponent 1); when it is not, the only
\* snapshot, 'future', is the one of the present hazard and entity, and
\* without exponent every year has weight 1
C16_SnapshotSelection ==
    (last.op = "calc" /\ last.fresh)
        => /\ imp_meas_present.keys # <<>> <=> C16_FutureGiven
           /\ (C16_FutureGiven /\ ~last.args.imp_time_depen.some /\ ~last.raised)
                  => tot_climate_risk =
                         C12_Npv(C15_Between(imp_meas_present.val[NO_MEASURE].risk,
                                             imp_meas_future.val[NO_MEASURE].risk,
                                             C16_Linear))
           /\ ~C16_FutureGiven => imp_meas_future = C16_PresentInputs
           /\ (~C16_FutureGiven /\ ~last.args.imp_time_depen.some /\ ~last.raised)
                  => tot_climate_risk =
                         C12_Npv(C15_Between(R(0), imp_meas_future.val[NO_MEASURE].risk,
                                             C16_Ones))

\* a calc with a future entity and no exponent, three years long
C16_Witness ==
    /\ last.op = "calc" /\ last.fresh /\ ~last.raised
    /\ ~IsNone(last.args.ent_future) /\ IsNone(last.args.haz_future)
    /\ ~last.args.imp_time_depen.some
    /\ imp_meas_present.keys # <<>>
    /\ future_year = present_year + 2
    /\ FLess(imp_meas_present.val[NO_MEASURE].risk, imp_meas_future.val[NO_MEASURE].risk)
    /\ IsFinite(tot_climate_risk)

\* C17: after a calc, present_year is the reference year of the present
\* entity's exposures; future_year is the reference year of ent_future's
\* exposures whenever ent_future is given (with or without haz_future, whatever
\* the future_year argument), otherwise the future_year argument if given,
\* otherwise present_year + 1
C17_YearResolution ==
    last.op = "calc"
        => /\ present_year = last.args.entity.exposures.ref_year
           /\ future_year =
                  IF ~IsNone(last.args.ent_future)
                  THEN last.args.ent_future.exposures.ref_year
                  ELSE IF last.args.future_year.some
                  THEN last.args.future_year.v
                  ELSE present_year + 1

\* a second calc with future hazard and entity, whose future_year argument
\* gave way to the future entity's year
C17_Witness ==
    /\ last.op = "calc"
    /\ ~last.fresh
    /\ ~IsNone(last.args.ent_future) /\ ~IsNone(last.args.haz_future)
    /\ last.args.future_year = Some(2019)
    /\ future_year = 2022
    /\ present_year = 2020

\* the damage of event e averted by the measures names[i], names[i+1], ...
\* in the snapshot d, added up
RECURSIVE C18_Averted(_, _, _, _)
C18_Averted(d, names, e, i) ==
    IF i > Len(names) THEN R(0)
    ELSE FAdd(FSub(d.val[NO_MEASURE].impact.at_event[e], d.val[names[i]].impact.at_event[e]),
              C18_Averted(d, names, e, i + 1))

\* max(baseline loss - summed averted damage, 0), event by event
C18_Loss(d, names) ==
    [e \in 1..Len(d.val[NO_MEASURE].impact.at_event) |->
        FMax(FSub(d.val[NO_MEASURE].impact.at_event[e], C18_Averted(d, names, e, 1)), R(0))]

\* the loss left of `loss` by the layer (attachment, cover), event by event
C18_LossBelowLayer(loss, rt) ==
    [e \in 1..Len(loss) |->
        FMax(FSub(loss[e], FMin(FMax(FSub(loss[e], rt.attachment), R(0)), rt.cover)), R(0))]

\* the costs of the measures names[i], names[i+1], ... in the snapshot d, added up
RECURSIVE C18_Cost(_, _, _)
C18_Cost(d, names, i) ==
    IF i > Len(names) THEN R(0) ELSE FAdd(d.val[names[i]].cost, C18_Cost(d, names, i + 1))

\* the call recorded in `last` is a combination that returned
C18_Combined == last.op = "combine_measures" /\ ~last.raised

\* C18: in each snapshot the combined measure has the cost of the named
\* measures added up, and the per-event loss
\* max(baseline loss - sum over the named measures of (baseline loss - loss
\* of the measure), 0) when no risk transfer layer is given; with a layer, the
\* layer min(max(loss - attachment, 0), cover) is taken off that loss, floored
\* at zero again
C18_CombinedLossAndCost ==
    C18_Combined
        => \A d \in C11_Snapshots :
              /\ d.val[last.args.new_name].cost = C18_Cost(d, last.args.in_meas_names, 1)
              /\ d.val[last.args.new_name].impact.at_event =
                     IF last.args.risk_transf = NoRiskTransf
                     THEN C18_Loss(d, last.args.in_meas_names)
                     ELSE C18_LossBelowLayer(C18_Loss(d, last.args.in_meas_names),
                                             last.args.risk_transf)

\* B and G, which together avert more than the baseline loss, combined under
\* a layer in two snapshots
C18_Witness ==
    /\ C18_Combined
    /\ last.args.in_meas_names = <<"B", "G">>
    /\ last.args.risk_transf = [attachment |-> R(50), cover |-> R(100)]
    /\ imp_meas_present.keys # <<>>
    /\ imp_meas_future.val["XY"].impact.at_event = <<R(0), R(0)>>
    /\ imp_meas_future.val["XY"].cost = R(130)

\* C18 whatever the risk transfer: in each snapshot the combined measure has
\* the per-event loss max(baseline loss - summed averted damage, 0) and the
\* cost of the named measures added up
C18_CombinedLossWithoutLayer ==
    C18_Combined
        => \A d \in C11_Snapshots :
              /\ d.val[last.args.new_name].cost = C18_Cost(d, last.args.in_meas_names, 1)
              /\ d.val[last.args.new_name].impact.at_event
                     = C18_Loss(d, last.args.in_meas_names)

\* the time dependency of the combination recorded in `last`: the exponent
\* given, or else 1 with a present snapshot and the same weight 1 for every
\* year without
C19_TimeDep ==
    _time_dependency_array(Self,
        IF last.args.imp_time_depen.some THEN last.args.imp_time_depen
        ELSE IF imp_meas_present.keys # <<>> THEN Some(1)
        ELSE None).val

\* the net present value of val_years with the discount rates of the call
C19_Npv(val_years) ==
    net_present_value(last.args.disc_rates, present_year, future_year, val_years).val

\* yearly benefit and yearly risk transfer of measure m by the per-measure
\* algorithm, for the time dependency td
C19_BenefitSeq(m, td) ==
    IF imp_meas_present.keys # <<>>
    THEN C15_Between(C15_Benefit(imp_meas_present, m), C15_Benefit(imp_meas_future, m), td)
    ELSE C12_Times(td, C15_Benefit(imp_meas_future, m))

C19_RiskTransfSeq(m, td) ==
    IF imp_meas_present.keys # <<>>
    THEN C15_Between(imp_meas_present.val[m].risk_transf,
                     imp_meas_future.val[m].risk_transf, td)
    ELSE C12_Times(td, imp_meas_future.val[m].risk_transf)

\* C19: after a combine_measures that returned, new_name has an entry in
\* imp_meas_future, an entry in imp_meas_present exactly when there is a
\* present snapshot, and a benefit and a cost_ben_ratio that the per-measure
\* algorithm gives for the discount rates of the call and its time dependency
\* (without exponent: linear with a present snapshot, all ones without)
C19_CombinedMeasureStored ==
    C18_Combined
        => /\ DHas(imp_meas_future, last.args.new_name)
           /\ DHas(imp_meas_present, last.args.new_name) <=> imp_meas_present.keys # <<>>
           /\ last.args.new_name \in DOMAIN benefit
           /\ last.args.new_name \in DOMAIN cost_ben_ratio
           /\ benefit[last.args.new_name]
                  = C19_Npv(C19_BenefitSeq(last.args.new_name, C19_TimeDep))
           /\ cost_ben_ratio[last.args.new_name]
                  = FDiv(FAdd(imp_meas_future.val[last.args.new_name].cost,
                              C19_Npv(C19_RiskTransfSeq(last.args.new_name, C19_TimeDep))),
                         benefit[last.args.new_name])

\* three measures combined without exponent on an object with a present
\* snapshot, three years long, under a layer of risk transfer
C19_Witness ==
    /\ C18_Combined
    /\ last.args.new_name = "XYZ"
    /\ ~last.args.imp_time_depen.some
    /\ imp_meas_present.keys # <<>>
    /\ future_year = present_year + 2
    /\ FLess(R(0), imp_meas_future.val["XYZ"].risk_transf)
    /\ IsFinite(cost_ben_ratio["XYZ"])
    /\ FLess(R(0), benefit["XYZ"])

\* C20: after a calc on a new object that returned, benefit and
\* cost_ben_ratio have the same keys, the keys of imp_meas_future without
\* 'no measure': every measure of the future snapshot has a benefit and a
\* ratio, and the baseline has neither
C20_BenefitKeys ==
    (last.op = "calc" /\ last.fresh /\ ~last.raised)
        => /\ DOMAIN benefit = Range(imp_meas_future.keys) \ {NO_MEASURE}
           /\ DOMAIN cost_ben_ratio = DOMAIN benefit
           /\ NO_MEASURE \in Range(imp_meas_future.keys)

\* a calc whose future entity has fewer measures than the present one
C20_Witness ==
    /\ last.op = "calc" /\ last.fresh /\ ~last.raised
    /\ DOMAIN benefit = {"A"}
    /\ imp_meas_future.keys = <<NO_MEASURE, "A">>
    /\ Len(imp_meas_present.keys) = 5
    /\ DOMAIN color_rgb = {"A", "B", "C", "G"}

\* the hazard and the entity the 'future' mapping of the last calc was computed from
C21_FutureHazard ==
    IF IsNone(last.args.haz_future) THEN last.args.hazard ELSE last.args.haz_future

C21_FutureEntity ==
    IF IsNone(last.args.ent_future) THEN last.args.entity ELSE last.args.ent_future

\* the measures of an entity that are for the type of a hazard
C21_MeasuresFor(ent, haz) == {m \in Range(ent.measures) : m.haz_type = haz.haz_type}

\* the 'no measure' entry of mapping d, computed from haz and ent
C21_Baseline(d, haz, ent) ==
    /\ DHas(d, NO_MEASURE)
    /\ d.val[NO_MEASURE].cost = R(0)
    /\ d.val[NO_MEASURE].risk_transf = R(0)
    /\ d.val[NO_MEASURE].risk = ApplyRisk(last.args.risk_func, Impact_calc(ent.exposures, haz))
    /\ d.val[NO_MEASURE].efc = calc_freq_curve(Impact_calc(ent.exposures, haz))

\* the entry of measure m in mapping d, res being what m.calc_impact returned
C21_OfMeasure(d, m, res) ==
    /\ DHas(d, m.name)
    /\ d.val[m.name].cost = m.cost
    /\ d.val[m.name].risk = ApplyRisk(last.args.risk_func, res.imp)
    /\ d.val[m.name].risk_transf = res.risk_transf
    /\ d.val[m.name].efc = calc_freq_curve(res.imp)

\* mapping d is the one _calc_impact_measures makes of haz and ent
C21_Mapping(d, haz, ent) ==
    /\ C21_Baseline(d, haz, ent)
    /\ Range(d.keys) = {NO_MEASURE} \cup {m.name : m \in C21_MeasuresFor(ent, haz)}
    /\ Len(d.keys) = 1 + Cardinality(C21_MeasuresFor(ent, haz))
    /\ \A m \in C21_MeasuresFor(ent, haz) :
           C21_OfMeasure(d, m, Measure_calc_impact(m, ent.exposures, haz))
    /\ \A k \in Range(d.keys) : ("impact" \in DOMAIN d.val[k]) <=> last.args.save_imp

\* C21: every mapping _calc_impact_measures produced in a calc (the future
\* one and, when a future input is given, the present one) has a 'no measure'
\* entry with cost 0, risk_transf 0 and the risk of the impact without
\* measures, and one entry per measure of the hazard's type with the cost, risk,
\* risk_transf and frequency curve of the measure; the entries hold 'impact'
\* if and only if save_imp is true
C21_ImpactMeasuresMapping ==
    last.op = "calc"
        => /\ C21_Mapping(imp_meas_future, C21_FutureHazard, C21_FutureEntity)
           /\ C16_FutureGiven
                  => C21_Mapping(imp_meas_present, last.args.hazard, last.args.entity)

\* a calc that made both mappings from different inputs and kept the impacts,
\* with a measure that has a risk transfer, and one that made a mapping
\* without impacts
C21_Witness ==
    /\ last.op = "calc" /\ C16_FutureGiven /\ last.args.save_imp
    /\ DHas(imp_meas_present, "C") /\ DHas(imp_meas_future, "C")
    /\ imp_meas_future.val["C"].risk_transf # R(0)
    /\ imp_meas_future.val["C"].risk_transf # imp_meas_present.val["C"].risk_transf
    /\ "impact" \in DOMAIN imp_meas_future.val["C"]
    /\ imp_meas_future.val[NO_MEASURE].risk # imp_meas_present.val[NO_MEASURE].risk

\* a calc without save_imp: no entry holds an impact
C21_WitnessNoImpact ==
    /\ last.op = "calc" /\ ~last.args.save_imp
    /\ Len(imp_meas_future.keys) = 5
    /\ \A k \in Range(imp_meas_future.keys) : "impact" \notin DOMAIN imp_meas_future.val[k]

\* the calc recorded in `last`, made on a new object
C22_OnNewObject ==
    calc(CostBenefit_init, last.args.hazard, last.args.entity, last.args.haz_future,
         last.args.ent_future, last.args.future_year, last.args.risk_func,
         last.args.imp_time_depen, last.args.save_imp).self

\* the attributes of object s a calc is to determine
C22_Results(s) ==
    <<s.imp_meas_present, s.imp_meas_future, s.benefit, s.cost_ben_ratio, s.color_rgb,
      s.tot_climate_risk>>

\* C22: a calc that returns leaves imp_meas_present, imp_meas_future, benefit,
\* cost_ben_ratio, color_rgb and tot_climate_risk as the same calc leaves them
\* on a new object, whatever calls were made on the object before
C22_CalcDependsOnArgumentsOnly ==
    (last.op = "calc" /\ ~last.raised) => C22_Results(Self) = C22_Results(C22_OnNewObject)

\* C23: in every state calc and combine_measures calls lead to, benefit and
\* cost_ben_ratio have the same keys, 'no measure' is none of them, and every
\* one of them is a key of imp_meas_future
C23_BenefitKeysInvariant ==
    /\ DOMAIN benefit = DOMAIN cost_ben_ratio
    /\ NO_MEASURE \notin DOMAIN benefit
    /\ DOMAIN benefit \subseteq Range(imp_meas_future.keys)

\* the risks of the entries the combination reads are expected annual impacts:
\* the calc that made the snapshots was given risk_aai_agg
C24_AnnualImpactRisks ==
    \A d \in C7_Snapshots :
        \A k \in {NO_MEASURE} \cup Range(last.args.in_meas_names) :
            d.val[k].risk = d.val[k].impact.aai_agg

\* for no event of a snapshot is the summed averted damage of the combined
\* measures more than the loss without measures
C24_FloorNotTriggered ==
    \A d \in C7_Snapshots :
        \A e \in DOMAIN d.val[NO_MEASURE].impact.at_event :
            FLeq(C18_Averted(d, last.args.in_meas_names, e, 1),
                 d.val[NO_MEASURE].impact.at_event[e])

\* the sum of the benefits of the measures from the i-th name on
RECURSIVE C24_SumOfBenefits(_, _)
C24_SumOfBenefits(names, i) ==
    IF i > Len(names) THEN R(0)
    ELSE FAdd(benefit[names[i]], C24_SumOfBenefits(names, i + 1))

\* a combine_measures of distinct measures that returned, without risk
\* transfer, with risk_aai_agg, and with the discount rates and the exponent
\* (none given) of the calc before it
C24_Combination ==
    /\ last.op = "combine_measures" /\ ~last.raised
    /\ Cardinality(Range(last.args.in_meas_names)) = Len(last.args.in_meas_names)
    /\ last.args.risk_transf = NoRiskTransf
    /\ last.args.risk_func = "risk_aai_agg"
    /\ last.args.disc_rates = E20W.disc_rates
    /\ last.args.imp_time_depen = None

\* C24: after a calc that keeps the impacts and measures risk as expected
\* annual impact, a combination of distinct measures without risk transfer,
\* with the same discount rates and exponent and without the floor at zero
\* being triggered has as benefit the sum of the benefits of its measures
C24_BenefitsAdd ==
    (C24_Combination /\ C24_AnnualImpactRisks /\ C24_FloorNotTriggered)
        => benefit[last.args.new_name] = C24_SumOfBenefits(last.args.in_meas_names, 1)

\* three measures with different benefits combined over a present and a
\* future snapshot, and a combination with a measure that makes losses worse
C24_Witness ==
    /\ C24_Combination /\ C24_AnnualImpactRisks /\ C24_FloorNotTriggered
    /\ last.args.in_meas_names = <<"A", "B", "C">>
    /\ imp_meas_present.keys # <<>>
    /\ FLess(R(0), benefit["C"]) /\ FLess(benefit["C"], benefit["A"])
    /\ FLess(benefit["A"], benefit["B"])
    /\ FLess(benefit["B"], benefit[last.args.new_name])

C24_WitnessNegativeBenefit ==
    /\ C24_Combination /\ C24_AnnualImpactRisks /\ C24_FloorNotTriggered
    /\ last.args.in_meas_names = <<"XY", "W">>
    /\ FLess(benefit["W"], R(0))
    /\ FLess(benefit[last.args.new_name], benefit["XY"])

\* what the layer (attachment, cover) takes of the loss x of one event
C25_Transferred(x, rt) == FMin(FMax(FSub(x, rt.attachment), R(0)), rt.cover)

\* the combined loss of the last combination in snapshot d, before the layer
C25_Before(d) == C18_Loss(d, last.args.in_meas_names)

\* conservation for event e of snapshot d: what the layer takes is between 0
\* and the cover, what is stored as the loss of the new measure is not
\* negative, and the two add up to the combined loss before the layer
C25_Conserved(d, e, x, rt) ==
    /\ FLeq(R(0), C25_Transferred(x, rt)) /\ FLeq(C25_Transferred(x, rt), rt.cover)
    /\ FLeq(R(0), d.val[last.args.new_name].impact.at_event[e])
    /\ FAdd(d.val[last.args.new_name].impact.at_event[e], C25_Transferred(x, rt)) = x

\* C25: after a combination with a layer of attachment >= 0 and cover >= 0,
\* for every event the transferred amount is in [0, cover], the loss left is
\* not negative and both add up to the combined loss before the layer; the
\* risk_transf stored is the expected transferred amount; and the loss stored
\* is never negative, whatever the measures combined
C25_LayerConservesLoss ==
    C18_Combined
        => \A d \in C7_Snapshots :
              /\ \A e \in DOMAIN d.val[NO_MEASURE].impact.at_event :
                    C25_Conserved(d, e, C25_Before(d)[e], last.args.risk_transf)
              /\ d.val[last.args.new_name].risk_transf =
                     VSum([e \in DOMAIN Frequency |->
                              FMul(C25_Transferred(C25_Before(d)[e], last.args.risk_transf),
                                   Frequency[e])])

\* a layer that takes its whole cover of one event and part of another, with
\* loss left in both
C25_Witness ==
    /\ C18_Combined
    /\ FLess(R(0), last.args.risk_transf.attachment)
    /\ \E e \in DOMAIN Frequency :
          /\ C25_Transferred(C25_Before(imp_meas_future)[e], last.args.risk_transf)
                 = last.args.risk_transf.cover
          /\ FLess(R(0), imp_meas_future.val[last.args.new_name].impact.at_event[e])
    /\ \E e \in DOMAIN Frequency :
          /\ FLess(R(0), C25_Transferred(C25_Before(imp_meas_future)[e], last.args.risk_transf))
          /\ FLess(C25_Transferred(C25_Before(imp_meas_future)[e], last.args.risk_transf),
                   last.args.risk_transf.cover)
          /\ FLess(R(0), imp_meas_future.val[last.args.new_name].impact.at_event[e])

\* a layer over a combination whose loss was floored at zero
C25_WitnessFloored ==
    /\ C18_Combined
    /\ last.args.risk_transf # NoRiskTransf
    /\ \E e \in DOMAIN Frequency :
          /\ FLess(imp_meas_future.val[NO_MEASURE].impact.at_event[e],
                   C18_Averted(imp_meas_future, last.args.in_meas_names, e, 1))
          /\ imp_meas_future.val[last.args.new_name].impact.at_event[e] = R(0)

\* the call recorded in `last` is a calc on a new object whose entity has no
\* measure for the type of the hazard, without future entity, over a valid
\* range of years
C26_NoMeasureForHazard ==
    /\ last.op = "calc" /\ last.fresh
    /\ IsNone(last.args.ent_future)
    /\ C21_MeasuresFor(last.args.entity, last.args.hazard) = {}
    /\ present_year < future_year

\* what the calc leaves in the object, apart from how it ends
C26_Results ==
    /\ benefit = EmptyMap /\ cost_ben_ratio = EmptyMap
    /\ imp_meas_future.keys = <<NO_MEASURE>>
    /\ tot_climate_risk =
           C12_Npv(C15_Between(IF C16_FutureGiven THEN imp_meas_present.val[NO_MEASURE].risk
                                                  ELSE R(0),
                               imp_meas_future.val[NO_MEASURE].risk,
                               IF last.args.imp_time_depen.some
                               THEN GrowthArray(future_year - present_year + 1,
                                                last.args.imp_time_depen.v)
                               ELSE IF C16_FutureGiven THEN C16_Linear ELSE C16_Ones))

\* C26: a calc on an entity without any measure for the hazard's type returns
\* without raising, with benefit and cost_ben_ratio empty, imp_meas_future
\* holding 'no measure' only and tot_climate_risk the net present value of
\* the risk without measures
C26_NoMeasureCalcCompletes ==
    C26_NoMeasureForHazard => (~last.raised /\ C26_Results)

====
